---- MODULE Spec2Model ----
(***************************************************************************)
(* Model of metricslogging: the nested configuration store, the abstract   *)
(* MetricsLogger (name formatting, counter sampling, timing helpers), the  *)
(* statsd backend (naming hook, wire line, sanitization, one socket per    *)
(* send) and the logger registry (getLogger, run by one caller or by       *)
(* concurrent ones).                                                       *)
(*                                                                         *)
(* Python values are records [t |-> type tag, v |-> payload].  A str is a  *)
(* sequence of one-character strings, so that split, join and translate    *)
(* are computed character by character.  A float sample rate is kept in    *)
(* tenths (v = 5 is 0.5).                                                  *)
(***************************************************************************)
EXTENDS Integers, Sequences, FiniteSets, TLC

VARIABLES
    config,     \* node id -> NestedConfig._config of that node (a dict)
    loggers,    \* logger id -> [cls, acc]: class and bound accessor closures
    last,       \* observable effects of the most recent public call
    hist,       \* logger id -> option -> value last given to its own setter
    nops,       \* number of operations performed so far
    net,        \* what the operating system answers to socket calls
    sockets,    \* socket objects created so far: [open, sends] each
    _loggers,   \* the registry: prefix -> logger id
    ctx         \* execution context -> its getLogger call in progress

vars == <<config, loggers, last, hist, nops, net, sockets, _loggers, ctx>>

(***************************************************************************)
(* Bounds                                                                  *)
(***************************************************************************)
MaxLoggers == 2
MaxOps == 4
MaxStrLen == 2

(***************************************************************************)
(* Python values                                                           *)
(***************************************************************************)
PyNone == [t |-> "none", v |-> <<>>]
PyStr(s) == [t |-> "str", v |-> s]
PyList(l) == [t |-> "list", v |-> l]
PyTuple(l) == [t |-> "tuple", v |-> l]
PyBool(b) == [t |-> "bool", v |-> b]
PyInt(n) == [t |-> "int", v |-> n]
PyFloat(k) == [t |-> "float", v |-> k]
PyClass(c) == [t |-> "class", v |-> c]
PyObject == [t |-> "object", v |-> <<>>]
PyInstance(l) == [t |-> "instance", v |-> l]

\* Python truth value of x (if x: ...)
Truthy(x) ==
    CASE x.t = "none" -> FALSE
      [] x.t = "bool" -> x.v
      [] x.t \in {"int", "float"} -> x.v # 0
      [] x.t \in {"str", "list", "tuple"} -> x.v # <<>>
      [] OTHER -> TRUE

\* dict with key k bound to v
Put(m, k, v) == [x \in DOMAIN m \cup {k} |-> IF x = k THEN v ELSE m[x]]

EmptyDict == <<>>

(***************************************************************************)
(* NestedConfig                                                            *)
(***************************************************************************)
GLOBAL == 0
NoParent == -1

\* NestedConfig._parent: the module-level node has none, every logger's
\* override layer has the module-level node
Parent(node) == IF node = GLOBAL THEN NoParent ELSE GLOBAL

\* variant: _config is one dict shared by every node
set_config_shared(cfg, node, name, value) ==
    [k \in DOMAIN cfg |-> Put(cfg[k], name, value)]

set_config(cfg, node, name, value) ==
    [cfg EXCEPT ![node] = Put(@, name, value)]

\* variant: the local lookup tests the stored value instead of the key
RECURSIVE get_config_truthy(_, _, _)
get_config_truthy(cfg, node, name) ==
    IF name \in DOMAIN cfg[node] /\ Truthy(cfg[node][name]) THEN cfg[node][name]
    ELSE IF Parent(node) # NoParent THEN get_config_truthy(cfg, Parent(node), name)
    ELSE PyNone

\* variant: a miss at the root yields False instead of None
RECURSIVE get_config_false(_, _, _)
get_config_false(cfg, node, name) ==
    IF name \in DOMAIN cfg[node] THEN cfg[node][name]
    ELSE IF Parent(node) # NoParent THEN get_config_false(cfg, Parent(node), name)
    ELSE PyBool(FALSE)

RECURSIVE get_config(_, _, _)
get_config(cfg, node, name) ==
    IF name \in DOMAIN cfg[node] THEN cfg[node][name]
    ELSE IF Parent(node) # NoParent THEN get_config(cfg, Parent(node), name)
    ELSE PyNone

reset_config(cfg, node) == [cfg EXCEPT ![node] = EmptyDict]

\* variant: the default is written whatever the override flag says
add_config_writes(cfg, node, name, default, override) ==
    [cfg |-> set_config(cfg, node, name, default),
     node |-> node,
     name |-> name]

\* returns the store after the declaration and the (node, name) pair that
\* setter_fn and getter_fn close over
add_config(cfg, node, name, default, override) ==
    [cfg |-> IF ~override THEN set_config(cfg, node, name, default) ELSE cfg,
     node |-> node,
     name |-> name]

(***************************************************************************)
(* Module-level options                                                    *)
(***************************************************************************)
\* socket.gethostname() at import: a dotted name of three labels
HostName == <<"h", ".", "e", ".", "c">>

GlobalDecls ==
    << [name |-> "global_prefix", default |-> PyStr(<<>>)],
       [name |-> "prepend_host", default |-> PyBool(FALSE)],
       [name |-> "prepend_host_reverse", default |-> PyBool(FALSE)],
       [name |-> "host", default |-> PyStr(HostName)],
       [name |-> "statsd_delimiter", default |-> PyStr(<<".">>)],
       [name |-> "statsd_host", default |-> PyStr(<<"l", "o", "c", "a", "l", "h", "o", "s", "t">>)],
       [name |-> "statsd_port", default |-> PyInt(8125)],
       [name |-> "logger_class", default |-> PyClass("Statsd")] >>

RECURSIVE DeclareGlobals(_, _)
DeclareGlobals(cfg, decls) ==
    IF decls = <<>> THEN cfg
    ELSE DeclareGlobals(
            add_config(cfg, GLOBAL, Head(decls).name, Head(decls).default, FALSE).cfg,
            Tail(decls))

_global_config == DeclareGlobals([n \in {GLOBAL} |-> EmptyDict], GlobalDecls)

GlobalOptions == {GlobalDecls[i].name : i \in DOMAIN GlobalDecls}

(***************************************************************************)
(* MetricsLogger construction                                              *)
(***************************************************************************)
LoggerClasses == {"Statsd", "Noop", "Debug"}

\* variant: logger_class and global_prefix declared on the override layer
\* with their setters kept
BaseDecls_overridable(self) ==
    << [node |-> self, name |-> "logger_class", setter |-> TRUE],
       [node |-> self, name |-> "global_prefix", setter |-> TRUE],
       [node |-> self, name |-> "prefix", setter |-> TRUE],
       [node |-> self, name |-> "prepend_host", setter |-> TRUE],
       [node |-> self, name |-> "prepend_host_reverse", setter |-> TRUE],
       [node |-> self, name |-> "host", setter |-> TRUE] >>

\* the add_config calls of MetricsLogger.__init__, in order
BaseDecls(self) ==
    << [node |-> GLOBAL, name |-> "logger_class", setter |-> FALSE],
       [node |-> GLOBAL, name |-> "global_prefix", setter |-> FALSE],
       [node |-> self, name |-> "prefix", setter |-> TRUE],
       [node |-> self, name |-> "prepend_host", setter |-> TRUE],
       [node |-> self, name |-> "prepend_host_reverse", setter |-> TRUE],
       [node |-> self, name |-> "host", setter |-> TRUE] >>

\* the add_config calls of StatsdMetricsLogger.__init__, in order
StatsdDecls(self) ==
    << [node |-> self, name |-> "statsd_delimiter", setter |-> TRUE],
       [node |-> self, name |-> "statsd_host", setter |-> TRUE],
       [node |-> self, name |-> "statsd_port", setter |-> TRUE] >>

RECURSIVE DeclareOverrides(_, _, _)
DeclareOverrides(cfg, acc, decls) ==
    IF decls = <<>> THEN [cfg |-> cfg, acc |-> acc]
    ELSE LET d == Head(decls)
             r == add_config(cfg, d.node, d.name, PyNone, TRUE)
         IN  DeclareOverrides(r.cfg,
                              Put(acc, r.name, [node |-> r.node, setter |-> d.setter]),
                              Tail(decls))

\* cls(): a new override layer parented to the module-level node, then the
\* accessor declarations of the base class and of the subclass
NewLogger(cfg, self, cls) ==
    DeclareOverrides(Put(cfg, self, EmptyDict), EmptyDict,
                     IF cls = "Statsd" THEN BaseDecls(self) \o StatsdDecls(self)
                     ELSE BaseDecls(self))

Ids == DOMAIN loggers

\* options of logger l that have a (kept) setter
Settable(l) == {o \in DOMAIN loggers[l].acc : loggers[l].acc[o].setter}

\* the getter closure of logger l for option o
LoggerGet(l, o) == get_config(config, loggers[l].acc[o].node, o)

\* module-level getter for option o
GlobalGet(o) == get_config(config, GLOBAL, o)

(***************************************************************************)
(* Strings and name parts                                                  *)
(***************************************************************************)
Ok(v) == [raised |-> "none", v |-> v]
Raise(e) == [raised |-> e, v |-> <<>>]

Reverse(q) == [i \in 1..Len(q) |-> q[Len(q) + 1 - i]]

\* s.split(sep) for a one-character sep
RECURSIVE Split(_, _)
Split(s, sep) ==
    IF \A i \in 1..Len(s) : s[i] # sep THEN <<s>>
    ELSE LET i == CHOOSE k \in 1..Len(s) :
                     s[k] = sep /\ \A j \in 1..(k - 1) : s[j] # sep
         IN  <<SubSeq(s, 1, i - 1)>> \o Split(SubSeq(s, i + 1, Len(s)), sep)

\* delimiter.join(tokens)
RECURSIVE Join(_, _)
Join(tokens, delimiter) ==
    IF tokens = <<>> THEN <<>>
    ELSE IF Len(tokens) = 1 THEN tokens[1]
    ELSE tokens[1] \o delimiter \o Join(Tail(tokens), delimiter)

\* variant: a value of any other type is taken as absent
_to_list_lenient(parts) ==
    CASE parts.t = "none" -> Ok(<<>>)
      [] parts.t = "list" -> Ok(parts.v)
      [] parts.t = "str" -> Ok(<<parts.v>>)
      [] parts.t = "tuple" -> Ok(parts.v)
      [] OTHER -> Ok(<<>>)

_to_list(parts) ==
    CASE parts.t = "none" -> Ok(<<>>)
      [] parts.t = "list" -> Ok(parts.v)
      [] parts.t = "str" -> Ok(<<parts.v>>)
      [] parts.t = "tuple" -> Ok(parts.v)
      [] OTHER -> Raise("TypeError")

\* itertools.chain(*[_to_list(p) for p in parts])
RECURSIVE Chain(_)
Chain(parts) ==
    IF parts = <<>> THEN Ok(<<>>)
    ELSE LET h == _to_list(Head(parts))
             t == Chain(Tail(parts))
         IN  IF h.raised # "none" THEN h
             ELSE IF t.raised # "none" THEN t
             ELSE Ok(h.v \o t.v)

\* variant: empty tokens are kept whatever skip_empty says
_list_chain_keep_empty(skip_empty, parts) == Chain(parts)

_list_chain(skip_empty, parts) ==
    LET c == Chain(parts)
    IN  IF c.raised # "none" THEN c
        ELSE Ok(SelectSeq(c.v, LAMBDA x : ~skip_empty \/ x # <<>>))

\* the join attribute is looked up on the delimiter before the parts are
\* chained
_list_join(delimiter, skip_empty, parts) ==
    IF delimiter.t # "str" THEN Raise("AttributeError")
    ELSE LET c == _list_chain(skip_empty, parts)
         IN  IF c.raised # "none" THEN c
             ELSE Ok(Join(c.v, delimiter.v))

_get_host_parts(host) ==
    IF host.t = "str" THEN _to_list(PyList(Split(host.v, ".")))
    ELSE _to_list(host)

(***************************************************************************)
(* Statsd backend                                                          *)
(***************************************************************************)
GAUGE_TYPE == <<"g">>
COUNTER_TYPE == <<"c">>
TIMER_TYPE == <<"m", "s">>

PROHIBITED_CHARS == <<":", "|", "@", "\n">>
REPLACE_CHARS == <<"-", "-", "-", "-">>

Digits == <<"0", "1", "2", "3", "4", "5", "6", "7", "8", "9">>

RECURSIVE NatToStr(_)
NatToStr(n) ==
    IF n < 10 THEN <<Digits[n + 1]>>
    ELSE NatToStr(n \div 10) \o <<Digits[(n % 10) + 1]>>

\* str(x) for the value types sent as metric fields; a float is in tenths
Str(x) ==
    CASE x.t = "str" -> x.v
      [] x.t = "int" -> IF x.v < 0 THEN <<"-">> \o NatToStr(-x.v) ELSE NatToStr(x.v)
      [] x.t = "float" ->
            IF x.v < 0
            THEN <<"-">> \o NatToStr((-x.v) \div 10) \o <<".">> \o NatToStr((-x.v) % 10)
            ELSE NatToStr(x.v \div 10) \o <<".">> \o NatToStr(x.v % 10)
      [] x.t = "bool" -> IF x.v THEN <<"T", "r", "u", "e">> ELSE <<"F", "a", "l", "s", "e">>
      [] x.t = "none" -> <<"N", "o", "n", "e">>

StrTypes == {"str", "int", "float", "bool", "none"}

\* one entry of string.maketrans(PROHIBITED_CHARS, REPLACE_CHARS)
Translate(c) ==
    IF \E j \in 1..Len(PROHIBITED_CHARS) : PROHIBITED_CHARS[j] = c
    THEN REPLACE_CHARS[CHOOSE j \in 1..Len(PROHIBITED_CHARS) : PROHIBITED_CHARS[j] = c]
    ELSE c

\* variant: only ':' and '|' are replaced, '@' and newline are left in place
_sanitize_partial(x) ==
    LET s == Str(x)
    IN  [i \in 1..Len(s) |-> IF s[i] \in {":", "|"} THEN "-" ELSE s[i]]

_sanitize(x) ==
    LET s == Str(x)
    IN  [i \in 1..Len(s) |-> Translate(s[i])]

Event(ev, args) == [ev |-> ev, args |-> args]

\* what the operating system may answer: every call succeeds, no socket
\* can be created, or a socket is created and its sendto fails
NetStates == {"up", "no_socket", "send_fails"}

\* socket.socket(AF_INET, SOCK_DGRAM): a new socket object, named by its
\* position in the table of sockets created so far
_open_socket ==
    IF net = "no_socket" THEN Raise("socket.error")
    ELSE Ok(Len(sockets) + 1)

\* sock.sendto(metric, (host, port)): the address is checked, then the
\* datagram is handed to the operating system
sendto(metric, host, port) ==
    IF host.t # "str" \/ port.t \notin {"int", "bool"} THEN Raise("TypeError")
    ELSE IF net = "send_fails" THEN Raise("socket.error")
    ELSE Ok(PyInt(Len(metric)))

\* variant: the socket is closed after sendto returned, not when it raised
_send_unclosed_on_error(l, name, value, type, sample_rate) ==
    LET metric ==
            IF sample_rate = PyNone
            THEN _sanitize(name) \o <<":">> \o _sanitize(value) \o <<"|">>
                    \o _sanitize(type)
            ELSE _sanitize(name) \o <<":">> \o _sanitize(value) \o <<"|">>
                    \o _sanitize(type) \o <<"@">> \o _sanitize(sample_rate)
        sock == _open_socket
        host == LoggerGet(l, "statsd_host")
        port == LoggerGet(l, "statsd_port")
        sent == sendto(metric, host, port)
    IN  IF sock.raised # "none"
        THEN [raised |-> sock.raised, ret |-> PyNone,
              trace |-> << Event("_open_socket", <<PyNone>>) >>]
        ELSE [raised |-> sent.raised,
              ret |-> IF sent.raised = "none" THEN sent.v ELSE PyNone,
              trace |-> << Event("_open_socket", <<PyInt(sock.v)>>),
                           Event("sendto", <<PyStr(metric), host, port, PyInt(sock.v)>>) >>
                        \o (IF sent.raised = "none"
                            THEN << Event("close", <<PyInt(sock.v)>>) >> ELSE <<>>)]

\* variant: the address is read from the module-level options
_send_global_address(l, name, value, type, sample_rate) ==
    LET metric ==
            IF sample_rate = PyNone
            THEN _sanitize(name) \o <<":">> \o _sanitize(value) \o <<"|">>
                    \o _sanitize(type)
            ELSE _sanitize(name) \o <<":">> \o _sanitize(value) \o <<"|">>
                    \o _sanitize(type) \o <<"@">> \o _sanitize(sample_rate)
        sock == _open_socket
        host == GlobalGet("statsd_host")
        port == GlobalGet("statsd_port")
        sent == sendto(metric, host, port)
    IN  IF sock.raised # "none"
        THEN [raised |-> sock.raised, ret |-> PyNone,
              trace |-> << Event("_open_socket", <<PyNone>>) >>]
        ELSE [raised |-> sent.raised,
              ret |-> IF sent.raised = "none" THEN sent.v ELSE PyNone,
              trace |-> << Event("_open_socket", <<PyInt(sock.v)>>),
                           Event("sendto", <<PyStr(metric), host, port, PyInt(sock.v)>>),
                           Event("close", <<PyInt(sock.v)>>) >>]

\* _send: the line, a socket of its own, one datagram to the resolved
\* (host, port); contextlib.closing closes the socket whether or not sendto
\* raised; nothing is caught
_send(l, name, value, type, sample_rate) ==
    LET metric ==
            IF sample_rate = PyNone
            THEN _sanitize(name) \o <<":">> \o _sanitize(value) \o <<"|">>
                    \o _sanitize(type)
            ELSE _sanitize(name) \o <<":">> \o _sanitize(value) \o <<"|">>
                    \o _sanitize(type) \o <<"@">> \o _sanitize(sample_rate)
        sock == _open_socket
        host == LoggerGet(l, "statsd_host")
        port == LoggerGet(l, "statsd_port")
        sent == sendto(metric, host, port)
    IN  IF sock.raised # "none"
        THEN [raised |-> sock.raised, ret |-> PyNone,
              trace |-> << Event("_open_socket", <<PyNone>>) >>]
        ELSE [raised |-> sent.raised,
              ret |-> IF sent.raised = "none" THEN sent.v ELSE PyNone,
              trace |-> << Event("_open_socket", <<PyInt(sock.v)>>),
                           Event("sendto", <<PyStr(metric), host, port, PyInt(sock.v)>>),
                           Event("close", <<PyInt(sock.v)>>) >>]

\* the table of sockets after the socket calls of a trace: a new socket is
\* open, sendto counts on the socket it was called on, close closes it
RECURSIVE Syscalls(_, _)
Syscalls(socks, trace) ==
    IF trace = <<>> THEN socks
    ELSE LET e == Head(trace)
             s == CASE e.ev = "_open_socket" /\ e.args[1] = PyInt(Len(socks) + 1) ->
                          Append(socks, [open |-> TRUE, sends |-> 0])
                    [] e.ev = "sendto" ->
                          [socks EXCEPT ![e.args[4].v].sends = @ + 1]
                    [] e.ev = "close" ->
                          [socks EXCEPT ![e.args[1].v].open = FALSE]
                    [] OTHER -> socks
         IN  Syscalls(s, Tail(trace))

NoEffect == [raised |-> "none", ret |-> PyNone, trace |-> <<>>]

\* the _format_name hook of logger l's class
_format_name(l, global_prefix, host, prefix, name) ==
    IF loggers[l].cls = "Statsd"
    THEN LET j == _list_join(LoggerGet(l, "statsd_delimiter"), TRUE,
                             <<global_prefix, host, prefix, name>>)
         IN  [raised |-> j.raised,
              ret |-> IF j.raised = "none" THEN PyStr(j.v) ELSE PyNone,
              trace |-> <<>>]
    ELSE NoEffect

\* the _gauge, _counter and _timer primitives of logger l's class
_gauge(l, m_name, m_value) ==
    IF loggers[l].cls = "Statsd"
    THEN _send(l, m_name, m_value, PyStr(GAUGE_TYPE), PyNone)
    ELSE NoEffect

_counter(l, m_name, m_value, sample_rate) ==
    IF loggers[l].cls = "Statsd"
    THEN _send(l, m_name, m_value, PyStr(COUNTER_TYPE), sample_rate)
    ELSE NoEffect

_timer(l, m_name, m_value) ==
    IF loggers[l].cls = "Statsd"
    THEN _send(l, m_name, m_value, PyStr(TIMER_TYPE), PyNone)
    ELSE NoEffect

(***************************************************************************)
(* MetricsLogger: formatting and emission                                  *)
(***************************************************************************)
\* the node whose entry the getter of logger l for option o returns
Holder(l, o) ==
    IF o \in DOMAIN config[loggers[l].acc[o].node] THEN loggers[l].acc[o].node
    ELSE GLOBAL

\* variant: the host tokens are reversed with host.reverse(), on the list
\* object _to_list handed back
format_name_store_in_place(l) ==
    IF /\ Truthy(LoggerGet(l, "prepend_host"))
       /\ LoggerGet(l, "host").t = "list"
       /\ Truthy(LoggerGet(l, "prepend_host_reverse"))
    THEN [config EXCEPT ![Holder(l, "host")] =
             Put(@, "host", PyList(Reverse(LoggerGet(l, "host").v)))]
    ELSE config

\* the stored option values after format_name on logger l.  For a list
\* host _to_list returns the stored list object itself, but reversed(host)
\* only reads it and list(...) builds a new list; chain, filter and join
\* read their arguments; no stored object is written
format_name_store(l) == config

\* variant: the host tokens are reversed when prepend_host_reverse is off
format_name_swapped(l, name) ==
    LET hp == IF Truthy(LoggerGet(l, "prepend_host"))
              THEN _get_host_parts(LoggerGet(l, "host"))
              ELSE Ok(<<>>)
    IN  IF hp.raised # "none"
        THEN [raised |-> hp.raised, ret |-> PyNone, trace |-> <<>>]
        ELSE LET host == IF Truthy(LoggerGet(l, "prepend_host_reverse"))
                         THEN hp.v ELSE Reverse(hp.v)
                 gp == LoggerGet(l, "global_prefix")
                 prefix == LoggerGet(l, "prefix")
                 f == _format_name(l, gp, PyList(host), prefix, name)
             IN  [raised |-> f.raised, ret |-> f.ret,
                  trace |-> << Event("_format_name",
                                     <<gp, PyList(host), prefix, name>>) >>]

format_name(l, name) ==
    LET hp == IF Truthy(LoggerGet(l, "prepend_host"))
              THEN _get_host_parts(LoggerGet(l, "host"))
              ELSE Ok(<<>>)
    IN  IF hp.raised # "none"
        THEN [raised |-> hp.raised, ret |-> PyNone, trace |-> <<>>]
        ELSE LET host == IF Truthy(LoggerGet(l, "prepend_host_reverse"))
                         THEN Reverse(hp.v) ELSE hp.v
                 gp == LoggerGet(l, "global_prefix")
                 prefix == LoggerGet(l, "prefix")
                 f == _format_name(l, gp, PyList(host), prefix, name)
             IN  [raised |-> f.raised, ret |-> f.ret,
                  trace |-> << Event("_format_name",
                                     <<gp, PyList(host), prefix, name>>) >>]

\* variant: a socket error of the backend is caught and dropped
gauge_suppressing(l, name, value) ==
    LET f == format_name(l, name)
    IN  IF f.raised # "none" THEN [f EXCEPT !.ret = PyNone]
        ELSE LET b == _gauge(l, f.ret, value)
             IN  [raised |-> IF b.raised = "socket.error" THEN "none" ELSE b.raised,
                  ret |-> PyNone,
                  trace |-> f.trace \o << Event("_gauge", <<f.ret, value>>) >>
                               \o b.trace]

gauge(l, name, value) ==
    LET f == format_name(l, name)
    IN  IF f.raised # "none" THEN [f EXCEPT !.ret = PyNone]
        ELSE LET b == _gauge(l, f.ret, value)
             IN  [raised |-> b.raised, ret |-> PyNone,
                  trace |-> f.trace \o << Event("_gauge", <<f.ret, value>>) >>
                               \o b.trace]

\* variant: no range check on sample_rate
counter_unchecked(l, name, value, sample_rate, draw) ==
    IF sample_rate = PyNone \/ draw < sample_rate.v
    THEN LET f == format_name(l, name)
         IN  IF f.raised # "none" THEN [f EXCEPT !.ret = PyNone]
             ELSE LET b == _counter(l, f.ret, value, sample_rate)
                  IN  [raised |-> b.raised, ret |-> b.ret,
                       trace |-> f.trace
                                 \o << Event("_counter", <<f.ret, value, sample_rate>>) >>
                                 \o b.trace]
    ELSE NoEffect

\* variant: the draw is compared with <= instead of <
counter_inclusive(l, name, value, sample_rate, draw) ==
    IF sample_rate # PyNone /\ (sample_rate.v < 0 \/ sample_rate.v > 10)
    THEN [raised |-> "ValueError", ret |-> PyNone, trace |-> <<>>]
    ELSE IF sample_rate = PyNone \/ draw <= sample_rate.v
    THEN LET f == format_name(l, name)
         IN  IF f.raised # "none" THEN [f EXCEPT !.ret = PyNone]
             ELSE LET b == _counter(l, f.ret, value, sample_rate)
                  IN  [raised |-> b.raised, ret |-> b.ret,
                       trace |-> f.trace
                                 \o << Event("_counter", <<f.ret, value, sample_rate>>) >>
                                 \o b.trace]
    ELSE NoEffect

\* draw is what random.random() returns when it is called, in tenths
counter(l, name, value, sample_rate, draw) ==
    IF sample_rate # PyNone /\ (sample_rate.v < 0 \/ sample_rate.v > 10)
    THEN [raised |-> "ValueError", ret |-> PyNone, trace |-> <<>>]
    ELSE IF sample_rate = PyNone \/ draw < sample_rate.v
    THEN LET f == format_name(l, name)
         IN  IF f.raised # "none" THEN [f EXCEPT !.ret = PyNone]
             ELSE LET b == _counter(l, f.ret, value, sample_rate)
                  IN  [raised |-> b.raised, ret |-> b.ret,
                       trace |-> f.trace
                                 \o << Event("_counter", <<f.ret, value, sample_rate>>) >>
                                 \o b.trace]
    ELSE NoEffect

timer(l, name, value) ==
    LET f == format_name(l, name)
    IN  IF f.raised # "none" THEN [f EXCEPT !.ret = PyNone]
        ELSE LET b == _timer(l, f.ret, value)
             IN  [raised |-> b.raised, ret |-> PyNone,
                  trace |-> f.trace \o << Event("_timer", <<f.ret, value>>) >>
                               \o b.trace]

(***************************************************************************)
(* Timing helpers                                                          *)
(***************************************************************************)
\* Clock readings t0 and t1 are what _time() returns, in tenths of a
\* second; raises tells whether the wrapped function or block raises.

\* TimerContextDecorator around the work, as `with l.timer_cd(name):` or as
\* a decorated function: __enter__ reads the clock, the work runs,
\* __exit__ reads the clock and calls timer whether or not the work raised;
\* __exit__ returns None, so an exception of the work goes on to the caller
\* unless timer itself raised
timer_cd(l, name, t0, t1, raises) ==
    LET duration == PyFloat((t1 - t0) * 1000)
        t == timer(l, name, duration)
    IN  [raised |-> IF t.raised # "none" THEN t.raised
                    ELSE IF raises THEN "WorkError" ELSE "none",
         ret |-> PyNone,
         trace |-> << Event("_time", <<PyFloat(t0)>>),
                      Event("work", <<PyBool(raises)>>),
                      Event("_time", <<PyFloat(t1)>>),
                      Event("timer", <<name, duration>>) >> \o t.trace]

\* the function returned by the fn_time(*name) decorator of the earlier
\* revision: start = _time(); result = f(...); duration = _time() - start;
\* self.timer(name, duration * 1000); return result.  When f raises, the
\* statements after the call of f are not executed.
fn_time(l, name, t0, t1, raises) ==
    LET duration == PyFloat((t1 - t0) * 1000)
        t == timer(l, name, duration)
    IN  IF raises
        THEN [raised |-> "WorkError", ret |-> PyNone,
              trace |-> << Event("_time", <<PyFloat(t0)>>),
                           Event("work", <<PyBool(raises)>>) >>]
        ELSE [raised |-> t.raised,
              ret |-> IF t.raised = "none" THEN PyObject ELSE PyNone,
              trace |-> << Event("_time", <<PyFloat(t0)>>),
                           Event("work", <<PyBool(raises)>>),
                           Event("_time", <<PyFloat(t1)>>),
                           Event("timer", <<name, duration>>) >> \o t.trace]

(***************************************************************************)
(* Observation record of the most recent call                              *)
(***************************************************************************)
\* op: the method called; seq: the number of the operation that made the
\* call; draw: the value random.random() returned, in
\* tenths (-1 when it was not called); trace: the calls made to the naming
\* hook, to the backend primitive and to the socket, in order; raised: the
\* exception that left the call; ret: the value returned
\* the execution contexts that may call getLogger at the same time
Contexts == {1, 2}

\* a context that is not inside getLogger
Idle == [pc |-> "idle", prefix |-> PyNone, logger |-> 0, ret |-> 0]

NoCall == [op |-> "none", seq |-> 0, logger |-> 0, args |-> <<>>, draw |-> -1,
           trace |-> <<>>, raised |-> "none", ret |-> PyNone]

(***************************************************************************)
(* Initial state: the module has been imported                             *)
(***************************************************************************)
Init ==
    /\ config = _global_config
    /\ loggers = EmptyDict
    /\ last = NoCall
    /\ hist = EmptyDict
    /\ nops = 0
    /\ net = "up"
    /\ sockets = <<>>
    /\ _loggers = EmptyDict
    /\ ctx = [c \in Contexts |-> Idle]


(***************************************************************************)
(* Configuration operations                                                *)
(***************************************************************************)
Tick == nops < MaxOps /\ nops' = nops + 1

\* module-level setter: setGlobalPrefix(value), setHost(value), ...
GlobalSet(name, value) ==
    /\ Tick
    /\ config' = set_config(config, GLOBAL, name, value)
    /\ UNCHANGED <<loggers, last, hist, net, sockets, _loggers, ctx>>

\* _global_config.reset_config()
GlobalReset ==
    /\ Tick
    /\ config' = reset_config(config, GLOBAL)
    /\ UNCHANGED <<loggers, last, hist, net, sockets, _loggers, ctx>>

\* direct instantiation of a logger class
Construct(cls) ==
    /\ Tick
    /\ Cardinality(Ids) < MaxLoggers
    /\ LET self == Cardinality(Ids) + 1
           r == NewLogger(config, self, cls)
       IN  /\ config' = r.cfg
           /\ loggers' = Put(loggers, self, [cls |-> cls, acc |-> r.acc])
           /\ hist' = Put(hist, self, EmptyDict)
    /\ UNCHANGED <<last, net, sockets, _loggers, ctx>>

\* a logger's own setter: l.setPrefix(value), l.setHost(value), ...
LoggerSet(l, name, value) ==
    /\ Tick
    /\ l \in Ids
    /\ name \in Settable(l)
    /\ config' = set_config(config, loggers[l].acc[name].node, name, value)
    /\ hist' = [hist EXCEPT ![l] = Put(@, name, value)]
    /\ UNCHANGED <<loggers, last, net, sockets, _loggers, ctx>>

\* l._config_override.reset_config()
LoggerReset(l) ==
    /\ Tick
    /\ l \in Ids
    /\ config' = reset_config(config, l)
    /\ hist' = [hist EXCEPT ![l] = EmptyDict]
    /\ UNCHANGED <<loggers, last, net, sockets, _loggers, ctx>>

(***************************************************************************)
(* Formatting and emission calls                                           *)
(***************************************************************************)
Called(op, l, args, draw, out) ==
    /\ last' = [op |-> op, seq |-> nops + 1, logger |-> l, args |-> args,
                draw |-> draw, trace |-> out.trace, raised |-> out.raised,
                ret |-> out.ret]
    /\ sockets' = Syscalls(sockets, out.trace)

\* l.format_name(name)
FormatName(l, name) ==
    /\ Tick
    /\ l \in Ids
    /\ Called("format_name", l, <<name>>, -1, format_name(l, name))
    /\ config' = format_name_store(l)
    /\ UNCHANGED <<loggers, hist, net, _loggers, ctx>>

\* l.gauge(name, value)
Gauge(l, name, value) ==
    /\ Tick
    /\ l \in Ids
    /\ Called("gauge", l, <<name, value>>, -1, gauge(l, name, value))
    /\ config' = format_name_store(l)
    /\ UNCHANGED <<loggers, hist, net, _loggers, ctx>>

\* l.counter(name, value, sample_rate); random.random() is called, and
\* returns draw, only when the range check passed and sample_rate is given
Counter(l, name, value, sample_rate, draw) ==
    /\ Tick
    /\ l \in Ids
    /\ Called("counter", l, <<name, value, sample_rate>>,
              IF sample_rate = PyNone \/ sample_rate.v < 0 \/ sample_rate.v > 10
              THEN -1 ELSE draw,
              counter(l, name, value, sample_rate, draw))
    /\ config' = IF counter(l, name, value, sample_rate, draw).trace # <<>>
                 THEN format_name_store(l) ELSE config
    /\ UNCHANGED <<loggers, hist, net, _loggers, ctx>>

\* l.timer(name, value)
Timer(l, name, value) ==
    /\ Tick
    /\ l \in Ids
    /\ Called("timer", l, <<name, value>>, -1, timer(l, name, value))
    /\ config' = format_name_store(l)
    /\ UNCHANGED <<loggers, hist, net, _loggers, ctx>>

\* l._format_name(global_prefix, host, prefix, name), called directly
HookCall(l, global_prefix, host, prefix, name) ==
    /\ Tick
    /\ l \in Ids
    /\ Called("_format_name", l, <<global_prefix, host, prefix, name>>, -1,
              _format_name(l, global_prefix, host, prefix, name))
    /\ UNCHANGED <<config, loggers, hist, net, _loggers, ctx>>

\* l._send(name, value, type, sample_rate), called directly
Send(l, name, value, type, sample_rate) ==
    /\ Tick
    /\ l \in Ids
    /\ loggers[l].cls = "Statsd"
    /\ name.t \in StrTypes /\ value.t \in StrTypes
    /\ type.t \in StrTypes /\ sample_rate.t \in StrTypes
    /\ Called("_send", l, <<name, value, type, sample_rate>>, -1,
              _send(l, name, value, type, sample_rate))
    /\ UNCHANGED <<config, loggers, hist, net, _loggers, ctx>>

\* work run under l.timer_cd(name)
TimerCd(l, name, t0, t1, raises) ==
    /\ Tick
    /\ l \in Ids
    /\ Called("timer_cd", l, <<name>>, -1, timer_cd(l, name, t0, t1, raises))
    /\ config' = format_name_store(l)
    /\ UNCHANGED <<loggers, hist, net, _loggers, ctx>>

\* a call of a function decorated with l.fn_time(*name)
FnTime(l, name, t0, t1, raises) ==
    /\ Tick
    /\ l \in Ids
    /\ Called("fn_time", l, <<name>>, -1, fn_time(l, name, t0, t1, raises))
    /\ config' = IF raises THEN config ELSE format_name_store(l)
    /\ UNCHANGED <<loggers, hist, net, _loggers, ctx>>

(***************************************************************************)
(* The logger registry                                                     *)
(***************************************************************************)
\* prefix in _loggers / _loggers[prefix]: a list cannot be a dict key
Hashable(prefix) == prefix.t # "list"

\* variant: the class is the statsd one whatever logger_class holds
initLogger_fixed_class(cfg, lgs, prefix) ==
    LET self == Cardinality(DOMAIN lgs) + 1
        r == NewLogger(cfg, self, "Statsd")
    IN  [raised |-> "none",
         cfg |-> set_config(r.cfg, r.acc["prefix"].node, "prefix", prefix),
         loggers |-> Put(lgs, self, [cls |-> "Statsd", acc |-> r.acc]),
         logger |-> self]

\* initLogger(prefix): LoggerCls = getLoggerClass(); logger = LoggerCls();
\* logger.setPrefix(prefix).  Calling a value that is not a class raises.
initLogger(cfg, lgs, prefix) ==
    LET LoggerCls == get_config(cfg, GLOBAL, "logger_class")
        self == Cardinality(DOMAIN lgs) + 1
        r == NewLogger(cfg, self, LoggerCls.v)
    IN  IF LoggerCls.t # "class"
        THEN [raised |-> "TypeError", cfg |-> cfg, loggers |-> lgs, logger |-> 0]
        ELSE [raised |-> "none",
              cfg |-> set_config(r.cfg, r.acc["prefix"].node, "prefix", prefix),
              loggers |-> Put(lgs, self, [cls |-> LoggerCls.v, acc |-> r.acc]),
              logger |-> self]

\* variant: a logger is created and stored on every call
getLogger_uncached(cfg, lgs, reg, prefix) ==
    IF ~Hashable(prefix)
    THEN [raised |-> "TypeError", cfg |-> cfg, loggers |-> lgs, reg |-> reg,
          ret |-> PyNone, trace |-> <<>>]
    ELSE LET i == initLogger(cfg, lgs, prefix)
         IN  IF i.raised # "none"
             THEN [raised |-> i.raised, cfg |-> cfg, loggers |-> lgs,
                   reg |-> reg, ret |-> PyNone,
                   trace |-> << Event("initLogger", <<prefix>>) >>]
             ELSE [raised |-> "none", cfg |-> i.cfg, loggers |-> i.loggers,
                   reg |-> Put(reg, prefix, i.logger),
                   ret |-> PyInstance(i.logger),
                   trace |-> << Event("initLogger", <<prefix>>) >>]

\* getLogger(prefix) run by one context without interruption
getLogger(cfg, lgs, reg, prefix) ==
    IF ~Hashable(prefix)
    THEN [raised |-> "TypeError", cfg |-> cfg, loggers |-> lgs, reg |-> reg,
          ret |-> PyNone, trace |-> <<>>]
    ELSE IF prefix \notin DOMAIN reg
    THEN LET i == initLogger(cfg, lgs, prefix)
         IN  IF i.raised # "none"
             THEN [raised |-> i.raised, cfg |-> cfg, loggers |-> lgs,
                   reg |-> reg, ret |-> PyNone,
                   trace |-> << Event("initLogger", <<prefix>>) >>]
             ELSE [raised |-> "none", cfg |-> i.cfg, loggers |-> i.loggers,
                   reg |-> Put(reg, prefix, i.logger),
                   ret |-> PyInstance(i.logger),
                   trace |-> << Event("initLogger", <<prefix>>) >>]
    ELSE [raised |-> "none", cfg |-> cfg, loggers |-> lgs, reg |-> reg,
          ret |-> PyInstance(reg[prefix]), trace |-> <<>>]

\* getLogger(prefix), called while no other context is inside getLogger;
\* the instance's setter was invoked with prefix when it was created
GetLogger(prefix) ==
    /\ Tick
    /\ \A c \in Contexts : ctx[c].pc = "idle"
    /\ LET g == getLogger(config, loggers, _loggers, prefix)
       IN  /\ Cardinality(DOMAIN g.loggers) <= MaxLoggers
           /\ config' = g.cfg
           /\ loggers' = g.loggers
           /\ _loggers' = g.reg
           /\ hist' = [l \in DOMAIN g.loggers |->
                          IF l \in Ids THEN hist[l]
                          ELSE Put(EmptyDict, "prefix", prefix)]
           /\ Called("getLogger", 0, <<prefix>>, -1, g)
    /\ UNCHANGED <<net, ctx>>

\* getLogger(prefix) entered by context c, which evaluates
\* `prefix not in _loggers`; other contexts may run before its next step
GetLoggerCheck(c, prefix) ==
    /\ Tick
    /\ ctx[c].pc \in {"idle", "done"}
    /\ Hashable(prefix)
    /\ ctx' = [ctx EXCEPT ![c] =
                  [pc |-> IF prefix \notin DOMAIN _loggers THEN "create" ELSE "return",
                   prefix |-> prefix, logger |-> 0, ret |-> 0]]
    /\ UNCHANGED <<config, loggers, last, hist, net, sockets, _loggers>>

\* context c evaluates initLogger(prefix), the right-hand side of line 453
GetLoggerCreate(c) ==
    /\ ctx[c].pc = "create"
    /\ LET i == initLogger(config, loggers, ctx[c].prefix)
       IN  /\ Cardinality(DOMAIN i.loggers) <= MaxLoggers
           /\ config' = i.cfg
           /\ loggers' = i.loggers
           /\ hist' = [l \in DOMAIN i.loggers |->
                          IF l \in Ids THEN hist[l]
                          ELSE Put(EmptyDict, "prefix", ctx[c].prefix)]
           /\ ctx' = [ctx EXCEPT ![c].pc = IF i.raised = "none" THEN "store" ELSE "idle",
                                 ![c].logger = i.logger]
    /\ UNCHANGED <<last, nops, net, sockets, _loggers>>

\* context c stores the logger it created: _loggers[prefix] = ...
GetLoggerStore(c) ==
    /\ ctx[c].pc = "store"
    /\ _loggers' = Put(_loggers, ctx[c].prefix, ctx[c].logger)
    /\ ctx' = [ctx EXCEPT ![c].pc = "return"]
    /\ UNCHANGED <<config, loggers, last, hist, nops, net, sockets>>

\* context c returns _loggers[prefix]
GetLoggerReturn(c) ==
    /\ ctx[c].pc = "return"
    /\ ctx' = [ctx EXCEPT ![c].pc = "done", ![c].ret = _loggers[ctx[c].prefix]]
    /\ UNCHANGED <<config, loggers, last, hist, nops, net, sockets, _loggers>>

\* setLoggerClass(cls)
SetLoggerClass(cls) == GlobalSet("logger_class", cls)

\* the operating system starts or stops refusing socket calls
NetChange(o) ==
    /\ o \in NetStates \ {net}
    /\ net' = o
    /\ UNCHANGED <<config, loggers, last, hist, nops, sockets, _loggers, ctx>>

(***************************************************************************)
(* Specification of the configuration store                                *)
(***************************************************************************)
OptionNames == GlobalOptions \cup {"prefix"}

\* values handed to setters: null and a falsy value (the defaults are truthy)
ConfigValues == {PyNone, PyBool(FALSE)}

ConfigNames == OptionNames

Next ==
    \/ \E n \in ConfigNames \ {"prefix"}, v \in ConfigValues : GlobalSet(n, v)
    \/ GlobalReset
    \/ \E c \in LoggerClasses : Construct(c)
    \/ \E l \in 1..MaxLoggers, n \in ConfigNames, v \in ConfigValues : LoggerSet(l, n, v)
    \/ \E l \in 1..MaxLoggers : LoggerReset(l)

Spec == Init /\ [][Next]_vars

(***************************************************************************)
(* Properties of the configuration store                                   *)
(***************************************************************************)
AllNames == OptionNames \cup {"unknown"}

\* C1: on every node and for every option name, get returns the node's own
\* entry when it has one, whatever the stored value, and otherwise what the
\* parent's get returns (None at a node without parent); it is defined for
\* names that were never declared.
C1_LocalEntryShadowsParent ==
    \A node \in DOMAIN config, n \in AllNames :
        IF n \in DOMAIN config[node]
        THEN get_config(config, node, n) = config[node][n]
        ELSE IF node = GLOBAL
             THEN get_config(config, node, n) = PyNone
             ELSE get_config(config, node, n) = get_config(config, GLOBAL, n)

\* a layer holds a null or falsy entry over a different module-level value
C1_Witness ==
    \E l \in Ids, n \in OptionNames :
        /\ n \in DOMAIN config[l]
        /\ ~Truthy(config[l][n])
        /\ Truthy(GlobalGet(n))
        /\ get_config(config, l, n) = config[l][n]

\* what get returns on a node with no parent and no entry at all
Unset == get_config([n \in {GLOBAL} |-> EmptyDict], GLOBAL, "unknown")

\* C2 as stated: the result of get after set(name, value) at the root is
\* never the result of get on an unset name, whatever value was stored.
C2_UnsetDistinctFromAnyStored ==
    \A n \in DOMAIN config[GLOBAL] : GlobalGet(n) # Unset

\* C2: the result of get after set(name, value) at the root differs from
\* the unset result for every stored value other than None, the falsy ones
\* included; a stored None is returned as None, which is the unset result.
C2_UnsetDistinctFromNonNull ==
    \A n \in AllNames :
        /\ n \notin DOMAIN config[GLOBAL] => GlobalGet(n) = Unset
        /\ n \in DOMAIN config[GLOBAL] =>
              (GlobalGet(n) = Unset <=> config[GLOBAL][n] = PyNone)

\* the root holds a stored False and a stored None
C2_Witness ==
    \E n, m \in DOMAIN config[GLOBAL] :
        /\ config[GLOBAL][n] = PyBool(FALSE) /\ GlobalGet(n) # Unset
        /\ config[GLOBAL][m] = PyNone /\ GlobalGet(m) = Unset

\* C3: a set or reset on one logger's override layer leaves the
\* module-level mapping and every other layer's mapping as they were, and
\* with them every module-level getter and every getter of another logger.
C3_OverrideTouchesOnlyOwnLayer ==
    [][\A l \in Ids :
          (\/ \E n \in OptionNames, v \in ConfigValues : LoggerSet(l, n, v)
           \/ LoggerReset(l))
          => /\ config'[GLOBAL] = config[GLOBAL]
             /\ \A o \in AllNames : GlobalGet(o)' = GlobalGet(o)
             /\ \A k \in Ids \ {l} :
                   /\ config'[k] = config[k]
                   /\ \A o \in DOMAIN loggers[k].acc :
                         LoggerGet(k, o)' = LoggerGet(k, o)]_vars

\* two loggers exist, one has overridden an option the other has not
C3_Witness ==
    \E l, k \in Ids :
        /\ l # k
        /\ \E n \in DOMAIN config[l] :
              /\ n \notin DOMAIN config[k]
              /\ LoggerGet(l, n) # LoggerGet(k, n)

OverridableOptions ==
    {"prepend_host", "prepend_host_reverse", "host",
     "statsd_delimiter", "statsd_host", "statsd_port"}

\* C4: for each overridable option a logger declares, while the logger's
\* own setter has not been invoked (since construction, or since its layer
\* was last cleared) its getter returns the current module-level value, and
\* once the setter has been invoked with v the getter returns v.
C4_DeclarationWritesNothing ==
    \A l \in Ids : \A o \in OverridableOptions \cap DOMAIN loggers[l].acc :
        IF o \in DOMAIN hist[l]
        THEN LoggerGet(l, o) = hist[l][o]
        ELSE LoggerGet(l, o) = GlobalGet(o)

\* a logger kept its own value through a later module-level set, while an
\* option it never set follows the module-level value
C4_Witness ==
    \E l \in Ids : \E o, q \in OverridableOptions \cap DOMAIN loggers[l].acc :
        /\ o \in DOMAIN hist[l]
        /\ GlobalGet(o) \notin {hist[l][o], _global_config[GLOBAL][o]}
        /\ LoggerGet(l, o) = hist[l][o]
        /\ q \notin DOMAIN hist[l]
        /\ LoggerGet(l, q) # _global_config[GLOBAL][q]

ProcessWideOptions == {"global_prefix", "logger_class"}

\* C5: after every step each logger's getGlobalPrefix and getLoggerClass
\* return what the module-level getter returns, and a step that constructs
\* a logger leaves the module-level value as it was.
C5_OneAuthoritativeValue ==
    [][/\ \A l \in DOMAIN loggers', o \in ProcessWideOptions :
             LoggerGet(l, o)' = GlobalGet(o)'
       /\ (\E c \in LoggerClasses : Construct(c))
             => \A o \in ProcessWideOptions : GlobalGet(o)' = GlobalGet(o)]_vars

\* a logger was constructed and the module-level values are not the defaults
C5_Witness ==
    /\ Ids # {}
    /\ \A o \in ProcessWideOptions :
          /\ GlobalGet(o) # _global_config[GLOBAL][o]
          /\ \A l \in Ids : LoggerGet(l, o) = GlobalGet(o)

(***************************************************************************)
(* Specification of formatting and emission                                *)
(***************************************************************************)
\* values given to the options that name formatting reads
FormatValues(n) ==
    CASE n \in {"prepend_host", "prepend_host_reverse"} -> {PyBool(TRUE), PyBool(FALSE)}
      [] n = "host" -> {PyList(<< <<"a">>, <<"b">> >>), PyTuple(<< <<"a">>, <<"b">> >>),
                        PyStr(<<".", "a">>), PyNone, PyObject}
      [] n = "global_prefix" -> {PyStr(<<"g">>)}
      [] n = "prefix" -> {PyStr(<<"p">>)}
      [] n = "statsd_delimiter" -> {PyStr(<<"_">>)}

FormatOptions ==
    {"prepend_host", "prepend_host_reverse", "host", "global_prefix",
     "prefix", "statsd_delimiter"}

\* metric names: a string, a list with an empty token, a malformed value
EmitNames == {PyStr(<<"m">>), PyList(<< <<"m">>, <<>> >>), PyObject}

EmitValues == {PyInt(10)}

\* sample rates in tenths: None, -0.1, 0.0, 0.5, 1.0, 1.1
SampleRates ==
    {PyNone, PyFloat(-1), PyFloat(0), PyFloat(5), PyFloat(10), PyFloat(11)}

\* random.random() returns a value in [0, 1): 0.0, 0.4, 0.5, 0.9
Draws == {0, 4, 5, 9}

NextFormat ==
    \/ \E n \in FormatOptions \ {"prefix"} : \E v \in FormatValues(n) : GlobalSet(n, v)
    \/ \E c \in LoggerClasses : Construct(c)
    \/ \E l \in 1..MaxLoggers, n \in FormatOptions : \E v \in FormatValues(n) :
          LoggerSet(l, n, v)
    \/ \E l \in 1..MaxLoggers, n \in EmitNames : FormatName(l, n)

SpecFormat == Init /\ [][NextFormat]_vars

\* the options set before a counter call, each with one value: host
\* prepending on, a malformed host, another delimiter, a prefix
CounterOptions == {"prepend_host", "host", "statsd_delimiter"}

CounterValue(n) ==
    CASE n = "prepend_host" -> PyBool(TRUE)
      [] n = "host" -> PyObject
      [] n = "statsd_delimiter" -> PyStr(<<"_">>)
      [] n = "prefix" -> PyStr(<<"p">>)

\* names given to counter: a string and a malformed value
CounterNames == {PyStr(<<"m">>), PyObject}

NextCounter ==
    \/ \E n \in CounterOptions : GlobalSet(n, CounterValue(n))
    \/ \E c \in LoggerClasses : Construct(c)
    \/ \E l \in 1..MaxLoggers : LoggerSet(l, "prefix", CounterValue("prefix"))
    \/ \E l \in 1..MaxLoggers, n \in CounterNames, v \in EmitValues,
          sr \in SampleRates, d \in Draws : Counter(l, n, v, sr, d)

SpecCounter == Init /\ [][NextCounter]_vars

(***************************************************************************)
(* Properties of counter sampling and of format_name                       *)
(***************************************************************************)
\* this step is a call of op
IsCall(op) == last'.op = op /\ last'.seq = nops' /\ nops' = nops + 1

ValidRate(sr) == sr = PyNone \/ (sr.v >= 0 /\ sr.v <= 10)

\* C6: a counter call whose sample_rate is not None and lies outside
\* [0.0, 1.0] raises ValueError without calling the naming hook, the backend
\* or the socket and without drawing a random number, for every name (a
\* malformed one included) and every configuration; 0.0 and 1.0 do not raise
\* ValueError.
C6_BadRateRejectedFirst ==
    last.op = "counter" =>
        LET sr == last.args[3]
        IN  /\ ~ValidRate(sr) =>
                 /\ last.raised = "ValueError"
                 /\ last.trace = <<>>
                 /\ last.draw = -1
            /\ ValidRate(sr) => last.raised # "ValueError"

\* a statsd logger whose host is malformed was given a malformed name and
\* the rate 1.1
C6_Witness ==
    /\ last.op = "counter"
    /\ last.args = <<PyObject, PyInt(10), PyFloat(11)>>
    /\ last.raised = "ValueError"
    /\ loggers[last.logger].cls = "Statsd"
    /\ LoggerGet(last.logger, "prepend_host") = PyBool(TRUE)
    /\ LoggerGet(last.logger, "host") = PyObject

\* C7: a counter call with a valid sample_rate whose name formatting does
\* not raise makes exactly one _counter call, with the formatted name, the
\* value and the sample_rate as given, when sample_rate is None or the draw
\* is below it; otherwise it calls nothing and raises nothing.
C7_SampledIffDrawBelowRate ==
    [][LET l == last'.logger
           n == last'.args[1]
           v == last'.args[2]
           sr == last'.args[3]
       IN  (IsCall("counter") /\ ValidRate(sr) /\ format_name(l, n).raised = "none")
           => IF sr = PyNone \/ last'.draw < sr.v
              THEN SelectSeq(last'.trace, LAMBDA e : e.ev = "_counter")
                      = << Event("_counter", <<format_name(l, n).ret, v, sr>>) >>
              ELSE last'.trace = <<>> /\ last'.raised = "none"]_vars

\* rate 1.0 with the largest draw was sent by a statsd logger
C7_Witness ==
    /\ last.op = "counter"
    /\ last.args[3] = PyFloat(10)
    /\ last.draw = 9
    /\ loggers[last.logger].cls = "Statsd"
    /\ \E i \in 1..Len(last.trace) : last.trace[i].ev = "_counter"
    /\ \E i \in 1..Len(last.trace) : last.trace[i].ev = "sendto"

\* tokens are the pieces of s between its '.' characters
IsSplitOf(tokens, s) ==
    /\ Len(tokens) >= 1
    /\ \A i \in 1..Len(tokens) : \A j \in 1..Len(tokens[i]) : tokens[i][j] # "."
    /\ Join(tokens, <<".">>) = s

\* C8: format_name calls the naming hook once, with the global prefix, the
\* host tokens, the logger's prefix and the name, in that order; the host
\* tokens are empty when prepend_host resolves to false, else the pieces of
\* a string host between its dots, or the tokens of a list or tuple host,
\* in their order when prepend_host_reverse is false and reversed when true.
C8_HookArguments ==
    [][IsCall("format_name") =>
          LET l == last'.logger
              n == last'.args[1]
              ph == Truthy(LoggerGet(l, "prepend_host"))
              rev == Truthy(LoggerGet(l, "prepend_host_reverse"))
              host == LoggerGet(l, "host")
          IN  (~ph \/ host.t \in {"str", "list", "tuple"})
              => /\ Len(last'.trace) = 1
                 /\ last'.trace[1].ev = "_format_name"
                 /\ LET a == last'.trace[1].args
                        k == Len(a[2].v)
                        fwd == [i \in 1..k |-> a[2].v[IF rev THEN k + 1 - i ELSE i]]
                    IN  /\ a[1] = LoggerGet(l, "global_prefix")
                        /\ a[3] = LoggerGet(l, "prefix")
                        /\ a[4] = n
                        /\ a[2].t = "list"
                        /\ IF ~ph THEN a[2].v = <<>>
                           ELSE IF host.t = "str" THEN IsSplitOf(fwd, host.v)
                           ELSE fwd = host.v]_vars

\* the default host name was passed to the hook reversed
C8_Witness ==
    /\ last.op = "format_name"
    /\ Len(last.trace) = 1
    /\ last.trace[1].args[2] = PyList(<< <<"c">>, <<"e">>, <<"h">> >>)
    /\ LoggerGet(last.logger, "host") = PyStr(HostName)

(***************************************************************************)
(* Specification of the statsd backend called directly                     *)
(***************************************************************************)
\* delimiters given to statsd_delimiter besides the default "."
Delimiters == {PyStr(<<":">>), PyStr(<<"-", ">">>)}

\* the representations of one name part built on the token c: absent, bare
\* string (empty or not), list (empty, one token, tokens around an empty one)
Slot(c) ==
    {PyNone, PyStr(<<>>), PyStr(<<c>>), PyList(<<>>), PyList(<< <<c>> >>),
     PyList(<< <<c>>, <<>>, <<c>> >>)}

\* characters of the strings handed to _send
SendAlphabet == {"m", ":", "|", "@", "\n"}

SendNames == UNION {[1..k -> SendAlphabet] : k \in 0..MaxStrLen}

SendValues == {PyInt(2), PyInt(-3), PyStr(<<"1", "|", "c">>)}

SendTypes == {PyStr(COUNTER_TYPE), PyStr(<<"t", ":">>)}

SendRates == {PyNone, PyFloat(5), PyStr(<<"@", "1">>)}

\* a statsd logger has been constructed and one more operation is left;
\* its delimiter is the default or was set on its own layer
InitStatsd ==
    /\ \E d \in Delimiters \cup {PyNone} :
          LET r == NewLogger(_global_config, 1, "Statsd")
          IN  /\ config = IF d = PyNone THEN r.cfg
                          ELSE set_config(r.cfg, 1, "statsd_delimiter", d)
              /\ loggers = Put(EmptyDict, 1, [cls |-> "Statsd", acc |-> r.acc])
              /\ hist = Put(EmptyDict, 1,
                            IF d = PyNone THEN EmptyDict
                            ELSE Put(EmptyDict, "statsd_delimiter", d))
    /\ last = NoCall
    /\ nops = MaxOps - 1
    /\ net = "up"
    /\ sockets = <<>>
    /\ _loggers = EmptyDict
    /\ ctx = [c \in Contexts |-> Idle]

NextStatsd ==
    \/ \E l \in Ids, g \in Slot("g"), h \in Slot("h"),
          p \in Slot("p"), n \in Slot("n") : HookCall(l, g, h, p, n)
    \/ \E l \in Ids, n \in SendNames, v \in SendValues,
          t \in SendTypes, sr \in SendRates : Send(l, PyStr(n), v, t, sr)
    \/ \E l \in Ids, n \in Slot("n"), v \in SendValues : Gauge(l, n, v)
    \/ \E l \in Ids, n \in Slot("n"), v \in SendValues : Timer(l, n, v)

SpecStatsd == InitStatsd /\ [][NextStatsd]_vars

(***************************************************************************)
(* Properties of the statsd naming hook and of the wire line               *)
(***************************************************************************)
\* the tokens a name part stands for
Tokens(x) == IF x.t = "none" THEN <<>> ELSE IF x.t = "str" THEN <<x.v>> ELSE x.v

\* the non-empty tokens with d between neighbours, built from the right
RECURSIVE Delimited(_, _)
Delimited(tokens, d) ==
    IF tokens = <<>> THEN <<>>
    ELSE LET rest == Delimited(Tail(tokens), d)
         IN  IF Head(tokens) = <<>> THEN rest
             ELSE IF \A i \in 2..Len(tokens) : tokens[i] = <<>> THEN Head(tokens)
             ELSE Head(tokens) \o d \o rest

\* C9: the statsd naming hook, given parts that are each absent, a bare
\* string or a list of strings, returns the non-empty tokens of global
\* prefix, host, prefix and name, in that order, with the resolved delimiter
\* between neighbours; a bare string gives what the one-token list gives,
\* and an absent part, an empty string and an empty list give what the
\* three other parts alone give.
C9_HookJoinsNonEmptyTokens ==
    [][LET l == last'.logger
           a == last'.args
           d == LoggerGet(l, "statsd_delimiter")
       IN  (IsCall("_format_name") /\ loggers[l].cls = "Statsd" /\ d.t = "str")
           => /\ last'.raised = "none"
              /\ last'.ret = PyStr(Delimited(Tokens(a[1]) \o Tokens(a[2])
                                              \o Tokens(a[3]) \o Tokens(a[4]), d.v))
              /\ \A i \in 1..4 :
                    /\ a[i].t = "str" =>
                          LET b == [a EXCEPT ![i] = PyList(<<a[i].v>>)]
                          IN  _format_name(l, b[1], b[2], b[3], b[4]).ret = last'.ret
                    /\ a[i] \in {PyNone, PyStr(<<>>), PyList(<<>>)} =>
                          LET others == [j \in 1..4 |-> IF j = i THEN <<>> ELSE Tokens(a[j])]
                          IN  last'.ret = PyStr(Delimited(others[1] \o others[2]
                                                          \o others[3] \o others[4], d.v))]_vars

\* a statsd hook call mixing an absent part, a bare string, a list with an
\* empty token and an empty string, under a two-character delimiter
C9_Witness ==
    /\ last.op = "_format_name"
    /\ last.args = <<PyNone, PyStr(<<"h">>), PyList(<< <<"p">>, <<>>, <<"p">> >>), PyStr(<<>>)>>
    /\ last.ret = PyStr(<<"h", "-", ">", "p", "-", ">", "p">>)

Count(s, c) == Cardinality({i \in 1..Len(s) : s[i] = c})

\* the field as transmitted: each ':', '|', '@' and newline of str(x)
\* replaced by '-'
Sanitized(x) ==
    [i \in 1..Len(Str(x)) |->
        IF Str(x)[i] \in {":", "|", "@", "\n"} THEN "-" ELSE Str(x)[i]]

\* C10: every line handed to the socket holds exactly one ':' and one '|',
\* no newline, and '@' only as the separator before a present sample rate;
\* for a direct _send it is the name, value, type and sample rate, each with
\* its ':', '|', '@' and newline characters replaced by '-' one for one,
\* around those separators.
C10_WireLineFraming ==
    \A i \in 1..Len(last.trace) :
        last.trace[i].ev = "sendto" =>
            LET line == last.trace[i].args[1].v
            IN  /\ Count(line, ":") = 1
                /\ Count(line, "|") = 1
                /\ Count(line, "\n") = 0
                /\ last.op \in {"gauge", "timer"} => Count(line, "@") = 0
                /\ last.op = "_send" =>
                      LET a == last.args
                      IN  /\ Count(line, "@") = IF a[4] = PyNone THEN 0 ELSE 1
                          /\ line = Sanitized(a[1]) \o <<":">> \o Sanitized(a[2])
                                      \o <<"|">> \o Sanitized(a[3])
                                      \o (IF a[4] = PyNone THEN <<>>
                                          ELSE <<"@">> \o Sanitized(a[4]))

\* a direct _send whose name, value, type and rate all hold prohibited
\* characters
C10_Witness ==
    /\ last.op = "_send"
    /\ last.args = <<PyStr(<<"@", "\n">>), PyStr(<<"1", "|", "c">>),
                     PyStr(<<"t", ":">>), PyStr(<<"@", "1">>)>>
    /\ last.trace[2].args[1] =
          PyStr(<<"-", "-", ":", "1", "-", "c", "|", "t", "-", "@", "-", "1">>)

(***************************************************************************)
(* Specification of statsd emission over the network                       *)
(***************************************************************************)
\* values given to the address options: another host, no host, another port
AddressValue(n) ==
    CASE n = "statsd_host" -> {PyStr(<<"t">>), PyNone}
      [] n = "statsd_port" -> {PyInt(4321)}

AddressOptions == {"statsd_host", "statsd_port"}

\* a name with a prohibited character
NetNames == {PyStr(<<"m", ":">>)}

NetValues == {PyInt(2)}

NetRates == {PyNone, PyFloat(5)}

NetDraws == {0, 9}

NextNet ==
    \/ \E c \in LoggerClasses : Construct(c)
    \/ GlobalSet("statsd_host", PyStr(<<"u">>))
    \/ \E l \in 1..MaxLoggers, n \in AddressOptions : \E v \in AddressValue(n) :
          LoggerSet(l, n, v)
    \/ \E o \in NetStates : NetChange(o)
    \/ \E l \in 1..MaxLoggers, n \in NetNames, v \in NetValues : Gauge(l, n, v)
    \/ \E l \in 1..MaxLoggers, n \in NetNames, v \in NetValues : Timer(l, n, v)
    \/ \E l \in 1..MaxLoggers, n \in NetNames, v \in NetValues,
          sr \in NetRates, d \in NetDraws : Counter(l, n, v, sr, d)
    \/ \E l \in 1..MaxLoggers, n \in NetNames, v \in NetValues :
          Send(l, n, v, PyStr(GAUGE_TYPE), PyNone)

SpecNet == Init /\ [][NextNet]_vars

(***************************************************************************)
(* Properties of statsd emission                                           *)
(***************************************************************************)
\* the events of a trace named ev
Events(trace, ev) == SelectSeq(trace, LAMBDA e : e.ev = ev)

\* C11: on a statsd logger whose name formatting does not raise, gauge and
\* timer each make one send attempt whatever the arguments, and with a
\* socket at hand exactly one datagram, whose line is the formatted name,
\* ':', the value, '|' and the tag g (gauge) or ms (timer); a counter that
\* is sent carries the tag c, followed by '@' and the sample rate iff the
\* rate is not None; the fields are as sanitized by _send; the datagram is
\* addressed to the statsd_host and statsd_port the logger's own getters
\* return when the call is made.
C11_LineAndAddressPerKind ==
    [][LET l == last'.logger
           a == last'.args
           f == format_name(l, a[1])
           opens == Events(last'.trace, "_open_socket")
           sends == Events(last'.trace, "sendto")
           Line(tag, sr) ==
               Sanitized(f.ret) \o <<":">> \o Sanitized(a[2]) \o <<"|">> \o tag
                  \o (IF sr = PyNone THEN <<>> ELSE <<"@">> \o Sanitized(sr))
           Datagram(tag, sr) ==
               Event("sendto", <<PyStr(Line(tag, sr)), LoggerGet(l, "statsd_host"),
                                 LoggerGet(l, "statsd_port"), opens[1].args[1]>>)
       IN  /\ (IsCall("gauge") /\ loggers[l].cls = "Statsd" /\ f.raised = "none")
                => /\ Len(opens) = 1
                   /\ sends = IF net = "no_socket" THEN <<>>
                              ELSE <<Datagram(<<"g">>, PyNone)>>
           /\ (IsCall("timer") /\ loggers[l].cls = "Statsd" /\ f.raised = "none")
                => /\ Len(opens) = 1
                   /\ sends = IF net = "no_socket" THEN <<>>
                              ELSE <<Datagram(<<"m", "s">>, PyNone)>>
           /\ (IsCall("counter") /\ loggers[l].cls = "Statsd" /\ sends # <<>>)
                => sends = <<Datagram(<<"c">>, a[3])>>]_vars

\* a timer datagram went to a host set on the logger's own layer while the
\* module-level host is another one
C11_Witness ==
    /\ last.op = "timer"
    /\ loggers[last.logger].cls = "Statsd"
    /\ LoggerGet(last.logger, "statsd_host") = PyStr(<<"t">>)
    /\ GlobalGet("statsd_host") = PyStr(<<"u">>)
    /\ \E i \in 1..Len(last.trace) :
          /\ last.trace[i].ev = "sendto"
          /\ last.trace[i].args[1] = PyStr(<<"m", "-", ":", "2", "|", "m", "s">>)
          /\ last.trace[i].args[2] = PyStr(<<"t">>)
          /\ last.trace[i].args[3] = PyInt(8125)

\* C12: every send that gets a socket gets a new one, makes its one sendto
\* on it and closes it before it returns or raises, also when sendto
\* fails; so after every call no socket the library created is open and no
\* socket has been handed more than one datagram.
C12_SocketPerSendAlwaysClosed ==
    [][/\ \A i \in DOMAIN sockets' : ~sockets'[i].open /\ sockets'[i].sends <= 1
       /\ (nops' = nops + 1 /\ last'.seq = nops')
            => LET opens == Events(last'.trace, "_open_socket")
                   fd == opens[1].args[1]
               IN  IF opens = <<>> \/ fd = PyNone
                   THEN sockets' = sockets
                   ELSE /\ Len(opens) = 1
                        /\ fd = PyInt(Len(sockets) + 1)
                        /\ Len(sockets') = Len(sockets) + 1
                        /\ \E i, j \in 1..Len(last'.trace) :
                              /\ i < j
                              /\ last'.trace[i].ev = "sendto"
                              /\ last'.trace[i].args[4] = fd
                              /\ last'.trace[j] = Event("close", <<fd>>)]_vars

\* a send whose sendto failed came after an earlier send, and both sockets
\* are closed
C12_Witness ==
    /\ Len(sockets) >= 2
    /\ last.raised = "socket.error"
    /\ Events(last.trace, "sendto") # <<>>
    /\ \A i \in DOMAIN sockets : ~sockets[i].open

\* the address options of logger l hold a host string and an integer port
ValidAddress(l) ==
    /\ LoggerGet(l, "statsd_host").t = "str"
    /\ LoggerGet(l, "statsd_port").t \in {"int", "bool"}

\* C13: a gauge, counter or timer call on a statsd logger asks for at most
\* one socket and hands over at most one datagram; when the socket cannot
\* be created the call raises the socket error without any sendto, and
\* when sendto fails the call raises that error after its single sendto.
C13_FailurePropagatesNoRetry ==
    [][LET l == last'.logger
           opens == Events(last'.trace, "_open_socket")
           sends == Events(last'.trace, "sendto")
       IN  ((IsCall("gauge") \/ IsCall("counter") \/ IsCall("timer"))
               /\ loggers[l].cls = "Statsd")
           => /\ Len(opens) <= 1
              /\ Len(sends) <= 1
              /\ (opens # <<>> /\ net = "no_socket")
                    => last'.raised = "socket.error" /\ sends = <<>>
              /\ (opens # <<>> /\ net = "send_fails" /\ ValidAddress(l))
                    => last'.raised = "socket.error" /\ Len(sends) = 1
              /\ (opens # <<>> /\ net # "no_socket" /\ ~ValidAddress(l))
                    => last'.raised = "TypeError" /\ Len(sends) = 1]_vars

\* a sampled counter call could not create its socket and raised
C13_Witness ==
    /\ last.op = "counter"
    /\ last.args[3] = PyFloat(5)
    /\ last.raised = "socket.error"
    /\ Events(last.trace, "_open_socket") = << Event("_open_socket", <<PyNone>>) >>
    /\ Events(last.trace, "sendto") = <<>>

(***************************************************************************)
(* Specification of the logger registry, one caller                        *)
(***************************************************************************)
\* prefixes handed to getLogger and to setPrefix: two strings, None and a
\* list (which cannot be a registry key)
RegPrefixes == {PyStr(<<"a">>), PyStr(<<"b">>), PyNone, PyList(<< <<"a">> >>)}

\* values handed to setLoggerClass: the three logger classes and None
ClassValues == {PyClass(c) : c \in LoggerClasses} \cup {PyNone}

NextRegistry ==
    \/ \E p \in RegPrefixes : GetLogger(p)
    \/ \E c \in ClassValues : SetLoggerClass(c)
    \/ \E l \in 1..MaxLoggers, v \in RegPrefixes : LoggerSet(l, "prefix", v)
    \/ GlobalSet("global_prefix", PyStr(<<"g">>))

SpecRegistry == Init /\ [][NextRegistry]_vars

(***************************************************************************)
(* Properties of the logger registry                                       *)
(***************************************************************************)
\* C14: with calls made one after another, no step (getLogger,
\* setLoggerClass, a config setter) removes a registry entry or binds its
\* prefix to another instance, two prefixes are never bound to the same
\* instance, and a getLogger(p) that returns returns the instance bound to
\* p, which for a registered p is the one bound before the call; so every
\* getLogger(p) returns what the first one returned.
C14_RegistryEntriesPermanent ==
    [][/\ \A p \in DOMAIN _loggers :
             p \in DOMAIN _loggers' /\ _loggers'[p] = _loggers[p]
       /\ \A p, q \in DOMAIN _loggers' : p # q => _loggers'[p] # _loggers'[q]
       /\ (IsCall("getLogger") /\ last'.raised = "none")
            => LET p == last'.args[1]
               IN  /\ p \in DOMAIN _loggers'
                   /\ last'.ret = PyInstance(_loggers'[p])
                   /\ p \in DOMAIN _loggers => last'.ret = PyInstance(_loggers[p])
                   /\ p \notin DOMAIN _loggers => _loggers'[p] \notin Ids]_vars

\* getLogger("a") returned the first instance again after another class
\* was selected and a second prefix was registered with that class
C14_Witness ==
    /\ last.op = "getLogger"
    /\ last.args = <<PyStr(<<"a">>)>>
    /\ last.trace = <<>>
    /\ last.ret = PyInstance(1)
    /\ DOMAIN _loggers = {PyStr(<<"a">>), PyStr(<<"b">>)}
    /\ loggers[1].cls # loggers[2].cls

\* C16: getLogger(p) for a p that is not registered, while logger_class
\* holds a logger class, creates one instance of that class (the statsd
\* one while the module-level options are as the import left them, which
\* is the case when setLoggerClass was never called), returns it and leaves
\* the existing instances alone, and the instance's getPrefix() returns p.
C16_NewInstanceOfSelectedClass ==
    [][(IsCall("getLogger") /\ Hashable(last'.args[1])
           /\ last'.args[1] \notin DOMAIN _loggers
           /\ GlobalGet("logger_class").t = "class")
       => LET p == last'.args[1]
              l == last'.ret.v
          IN  /\ last'.raised = "none"
              /\ last'.ret.t = "instance"
              /\ DOMAIN loggers' = Ids \cup {l} /\ l \notin Ids
              /\ loggers'[l].cls = config[GLOBAL]["logger_class"].v
              /\ config[GLOBAL] = _global_config[GLOBAL] => loggers'[l].cls = "Statsd"
              /\ get_config(config', loggers'[l].acc["prefix"].node, "prefix") = p
              /\ \A k \in Ids : loggers'[k] = loggers[k]]_vars

\* after setLoggerClass(Noop), getLogger("b") made the second instance, a
\* Noop logger whose getPrefix() returns "b", the first being a statsd one
C16_Witness ==
    /\ last.op = "getLogger"
    /\ last.args = <<PyStr(<<"b">>)>>
    /\ last.ret = PyInstance(2)
    /\ last.trace # <<>>
    /\ loggers[1].cls = "Statsd"
    /\ loggers[2].cls = "Noop"
    /\ GlobalGet("logger_class") = PyClass("Noop")
    /\ LoggerGet(2, "prefix") = PyStr(<<"b">>)

(***************************************************************************)
(* Specification of the logger registry, concurrent callers                *)
(***************************************************************************)
\* prefixes the concurrent callers ask for
RacePrefixes == {PyStr(<<"a">>), PyStr(<<"b">>)}

NextRace ==
    \/ \E c \in Contexts, p \in RacePrefixes : GetLoggerCheck(c, p)
    \/ \E c \in Contexts : GetLoggerCreate(c)
    \/ \E c \in Contexts : GetLoggerStore(c)
    \/ \E c \in Contexts : GetLoggerReturn(c)

SpecRace == Init /\ [][NextRace]_vars

\* C15: whatever the interleaving of the check and create steps of the
\* contexts, no two contexts each create an instance for the same prefix,
\* and two calls for the same prefix that have returned have returned the
\* same instance.
C15_OneInstanceUnderConcurrentFirstCalls ==
    \A c, d \in Contexts :
        (c # d /\ ctx[c].pc # "idle" /\ ctx[d].pc # "idle"
              /\ ctx[c].prefix = ctx[d].prefix)
        => /\ ~(ctx[c].logger # 0 /\ ctx[d].logger # 0)
           /\ (ctx[c].pc = "done" /\ ctx[d].pc = "done") => ctx[c].ret = ctx[d].ret

(***************************************************************************)
(* Specification of the timing helpers                                     *)
(***************************************************************************)
\* clock readings in tenths of a second: 1.0 at the start, 43.0 or (the
\* clock having been set back) 0.5 at the end
StartTimes == {10}

EndTimes == {430, 5}

\* names given to timer_cd and to fn_time (whose *name is always a tuple)
HelperNames == {PyStr(<<"f">>), PyTuple(<< <<"f">>, <<"b">> >>)}

NextHelper ==
    \/ \E c \in LoggerClasses : Construct(c)
    \/ \E o \in NetStates : NetChange(o)
    \/ \E l \in 1..MaxLoggers, n \in HelperNames, t0 \in StartTimes,
          t1 \in EndTimes, w \in BOOLEAN : TimerCd(l, n, t0, t1, w)
    \/ \E l \in 1..MaxLoggers, n \in {m \in HelperNames : m.t = "tuple"},
          t0 \in StartTimes, t1 \in EndTimes, w \in BOOLEAN :
             FnTime(l, n, t0, t1, w)

SpecHelper == Init /\ [][NextHelper]_vars

\* C17: a timing helper reads the clock, then runs the wrapped work, then
\* reads the clock again and calls timer exactly once with the given name
\* and (end - start) * 1000, also when the wrapped work raised, and in that
\* case the helper raises to its caller.
C17_TimerEmittedOnceAlsoOnFailure ==
    last.op \in {"timer_cd", "fn_time"} =>
        LET tr == last.trace
            timers == Events(tr, "timer")
        IN  /\ Len(tr) >= 4
            /\ tr[1].ev = "_time" /\ tr[2].ev = "work"
            /\ tr[3].ev = "_time" /\ tr[4].ev = "timer"
            /\ Len(timers) = 1
            /\ timers[1].args =
                  << last.args[1],
                     PyFloat((tr[3].args[1].v - tr[1].args[1].v) * 1000) >>
            /\ tr[2].args[1] = PyBool(TRUE) => last.raised # "none"

(***************************************************************************)
(* Specification of formatting with malformed name parts                   *)
(***************************************************************************)
\* values given to the options before an emission: values that are neither
\* None, a string, a list nor a tuple for the name parts, host prepending
\* switched on, and no delimiter
MalformedValue(n) ==
    CASE n = "global_prefix" -> {PyObject}
      [] n = "host" -> {PyInt(0)}
      [] n = "prefix" -> {PyBool(FALSE)}
      [] n = "prepend_host" -> {PyBool(TRUE)}
      [] n = "statsd_delimiter" -> {PyNone}

MalformedOptions == {"global_prefix", "host", "prepend_host", "statsd_delimiter"}

NextMalformed ==
    \/ \E c \in LoggerClasses : Construct(c)
    \/ \E n \in MalformedOptions : \E v \in MalformedValue(n) : GlobalSet(n, v)
    \/ \E l \in 1..MaxLoggers : \E v \in MalformedValue("prefix") :
          LoggerSet(l, "prefix", v)
    \/ \E l \in 1..MaxLoggers, n \in CounterNames : FormatName(l, n)
    \/ \E l \in 1..MaxLoggers, n \in CounterNames, v \in NetValues : Gauge(l, n, v)
    \/ \E l \in 1..MaxLoggers, n \in CounterNames, v \in NetValues : Timer(l, n, v)
    \/ \E l \in 1..MaxLoggers, n \in CounterNames, v \in NetValues,
          sr \in NetRates, d \in NetDraws : Counter(l, n, v, sr, d)

SpecMalformed == Init /\ [][NextMalformed]_vars

\* x is neither absent, a string, a list nor a tuple
Malformed(x) == x.t \notin {"none", "str", "list", "tuple"}

\* C18: on a statsd logger with a string delimiter, when the global prefix,
\* the host (with host prepending on, else it is not a name part), the
\* logger's prefix or the name given to the call is neither absent, a
\* string, a list nor a tuple, format_name raises TypeError, and so does a
\* gauge, timer or sent counter call, which then asks for no socket and
\* hands over no datagram.
C18_MalformedPartRaisesBeforeSend ==
    [][LET l == last'.logger
           n == last'.args[1]
           bad == \/ Malformed(LoggerGet(l, "global_prefix"))
                  \/ Truthy(LoggerGet(l, "prepend_host")) /\ Malformed(LoggerGet(l, "host"))
                  \/ Malformed(LoggerGet(l, "prefix"))
                  \/ Malformed(n)
           formats == \/ IsCall("format_name") \/ IsCall("gauge") \/ IsCall("timer")
                      \/ /\ IsCall("counter")
                         /\ ValidRate(last'.args[3])
                         /\ last'.args[3] = PyNone \/ last'.draw < last'.args[3].v
       IN  (formats /\ loggers[l].cls = "Statsd"
               /\ LoggerGet(l, "statsd_delimiter").t = "str" /\ bad)
           => /\ last'.raised = "TypeError"
              /\ Events(last'.trace, "_open_socket") = <<>>
              /\ Events(last'.trace, "sendto") = <<>>
              /\ sockets' = sockets]_vars

\* a gauge call with a well-formed name raised TypeError on a statsd logger
\* whose own prefix is malformed, and no socket was asked for
C18_Witness ==
    /\ last.op = "gauge"
    /\ last.args[1] = PyStr(<<"m">>)
    /\ last.raised = "TypeError"
    /\ loggers[last.logger].cls = "Statsd"
    /\ LoggerGet(last.logger, "prefix") = PyBool(FALSE)
    /\ ~Malformed(LoggerGet(last.logger, "global_prefix"))
    /\ Events(last.trace, "_open_socket") = <<>>

(***************************************************************************)
(* Specification of repeated calls on stored list values                   *)
(***************************************************************************)
HostList == PyList(<< <<"a">>, <<"b">> >>)

\* the prefix the registered logger is given by setPrefix after getLogger
FramePrefixes == {PyStr(<<"p">>), PyList(<< <<"p">>, <<"q">> >>)}

\* getLogger("p") has registered a statsd logger; a list host is stored at
\* the module level or on the logger's layer, host prepending is on, host
\* reversal is on or off, and the logger's prefix is a string or a list
InitFrame ==
    /\ \E where \in {GLOBAL, 1}, rev \in BOOLEAN, pfx \in FramePrefixes :
          LET g == getLogger(_global_config, EmptyDict, EmptyDict, PyStr(<<"p">>))
              c1 == set_config(g.cfg, 1, "prefix", pfx)
              c2 == set_config(c1, where, "host", HostList)
              c3 == set_config(c2, GLOBAL, "prepend_host", PyBool(TRUE))
              c4 == set_config(c3, GLOBAL, "prepend_host_reverse", PyBool(rev))
              h1 == Put(EmptyDict, "prefix", pfx)
          IN  /\ config = c4
              /\ loggers = g.loggers
              /\ _loggers = g.reg
              /\ hist = Put(EmptyDict, 1,
                            IF where = 1 THEN Put(h1, "host", HostList) ELSE h1)
    /\ last = NoCall
    /\ nops = 0
    /\ net = "up"
    /\ sockets = <<>>
    /\ ctx = [c \in Contexts |-> Idle]

FrameNames == {PyStr(<<"m">>), PyList(<< <<"m">>, <<"n">> >>)}

NextFrame ==
    \/ \E l \in Ids, b \in BOOLEAN : LoggerSet(l, "prepend_host_reverse", PyBool(b))
    \/ \E l \in Ids, n \in FrameNames : FormatName(l, n)
    \/ \E l \in Ids, n \in FrameNames, v \in NetValues : Gauge(l, n, v)
    \/ \E l \in Ids, n \in FrameNames, v \in NetValues : Timer(l, n, v)
    \/ \E l \in Ids, n \in FrameNames, v \in NetValues, sr \in NetRates,
          d \in NetDraws : Counter(l, n, v, sr, d)

SpecFrame == InitFrame /\ [][NextFrame]_vars

\* C19: a format_name, gauge, counter or timer call leaves every node of
\* the configuration store (the stored lists included), the loggers'
\* accessors and the registry as they were; and a format_name call that
\* follows a format_name call on the same logger with the same name, no
\* setter having been called in between, returns what that call returned.
C19_CallsLeaveStoredValuesAlone ==
    [][(IsCall("format_name") \/ IsCall("gauge") \/ IsCall("counter")
           \/ IsCall("timer"))
       => /\ config' = config
          /\ loggers' = loggers
          /\ _loggers' = _loggers
          /\ (IsCall("format_name") /\ last.op = "format_name" /\ last.seq = nops
                  /\ last.logger = last'.logger /\ last.args = last'.args)
                => last'.ret = last.ret /\ last'.raised = last.raised]_vars

\* with reversal on and no setter called, a third call in a row returned
\* the name built on the reversed host tokens and on the list prefix, and
\* the stored host list is as it was stored
C19_Witness ==
    /\ last.op = "format_name"
    /\ last.seq = 3
    /\ "prepend_host_reverse" \notin DOMAIN hist[1]
    /\ LoggerGet(1, "prepend_host_reverse") = PyBool(TRUE)
    /\ LoggerGet(1, "host") = HostList
    /\ last.ret = PyStr(<<"b", ".", "a", ".", "p", ".", "q", ".", "m">>)

====
